---- MODULE Spec2Model ----
(***************************************************************************)
(* Model of the project/card data model of scriptedt.py: the Project class *)
(* (order file, card files, rename, swap) and the editor commands that     *)
(* drive it.  Text is modelled as a sequence of one-character strings so   *)
(* that str(), int(), split(), join() and strip() are computed as Python   *)
(* computes them.                                                          *)
(***************************************************************************)
EXTENDS Integers, Sequences, FiniteSets, TLC

\* ------------------------------------------------------------------------
\* Program constants and bounds
\* ------------------------------------------------------------------------

\* range(1, 71): the number of cards of a project
NumCards == 70

\* card contents of the content specification have at most MaxLen characters
MaxLen == 4

\* texts of the order file drawn character by character have at most
\* MaxOrderText characters
MaxOrderText == 3

\* ------------------------------------------------------------------------
\* Python text primitives
\* ------------------------------------------------------------------------

NL == "\n"

\* str.strip() / str.split() whitespace (within the model's alphabet)
Whitespace == {" ", NL}

DigitChars == <<"0", "1", "2", "3", "4", "5", "6", "7", "8", "9">>

Digits == {DigitChars[i] : i \in 1..10}

DigitVal(c) == (CHOOSE i \in 1..10 : DigitChars[i] = c) - 1

RECURSIVE SkipLeft(_, _, _)
\* the first index from i on whose character is not in chars
SkipLeft(s, chars, i) ==
    IF i > Len(s) \/ s[i] \notin chars THEN i ELSE SkipLeft(s, chars, i + 1)

RECURSIVE SkipRight(_, _, _)
\* the last index up to i whose character is not in chars
SkipRight(s, chars, i) ==
    IF i < 1 \/ s[i] \notin chars THEN i ELSE SkipRight(s, chars, i - 1)

\* s.strip(chars): drop leading and trailing characters of the set
StripChars(s, chars) ==
    SubSeq(s, SkipLeft(s, chars, 1), SkipRight(s, chars, Len(s)))

\* s.strip()
Strip(s) == StripChars(s, Whitespace)

\* s.startswith(c) for a one-character prefix
StartsWith(s, c) == Len(s) >= 1 /\ s[1] = c

\* list(...): a comprehension over 1..n built as a list
AsList(f) == f \o <<>>

\* list(range(1, n + 1))
Indices(n) == AsList([i \in 1..n |-> i])

\* s.split(sep): the pieces between the separators; never empty,
\* ''.split(sep) == ['']
Split(s, sep) ==
    LET seps == SelectSeq(Indices(Len(s)), LAMBDA i : s[i] = sep)
        n == Len(seps)
    IN  AsList([k \in 1..(n + 1) |->
                   SubSeq(s, IF k = 1 THEN 1 ELSE seps[k - 1] + 1,
                             IF k = n + 1 THEN Len(s) ELSE seps[k] - 1)])

RECURSIVE JoinRange(_, _, _, _)
JoinRange(parts, sep, lo, hi) ==
    IF lo > hi THEN <<>>
    ELSE IF lo = hi THEN parts[lo]
    ELSE LET mid == (lo + hi) \div 2
         IN  JoinRange(parts, sep, lo, mid) \o sep
                 \o JoinRange(parts, sep, mid + 1, hi)

\* sep.join(parts)
Join(parts, sep) == JoinRange(parts, <<sep>>, 1, Len(parts))

\* ''.join(parts)
Concat(parts) == JoinRange(parts, <<>>, 1, Len(parts))

RECURSIVE NatStr(_)
NatStr(n) ==
    IF n < 10 THEN <<DigitChars[n + 1]>>
    ELSE NatStr(n \div 10) \o <<DigitChars[(n % 10) + 1]>>

\* str(n)
PyStr(n) == IF n < 0 THEN <<"-">> \o NatStr(-n) ELSE NatStr(n)

\* f"{n:02d}": zero-padded to width 2, the sign counts towards the width
Format02d(n) ==
    IF n < 0 THEN <<"-">> \o NatStr(-n)
    ELSE IF n < 10 THEN <<"0">> \o NatStr(n) ELSE NatStr(n)

RECURSIVE DigitsVal(_, _, _)
DigitsVal(s, i, acc) ==
    IF i > Len(s) THEN acc
    ELSE IF s[i] = "_" THEN DigitsVal(s, i + 1, acc)
    ELSE DigitsVal(s, i + 1, acc * 10 + DigitVal(s[i]))

\* the digit part of an integer literal: digits, single underscores between
IsDigitPart(s) ==
    /\ Len(s) >= 1
    /\ \A i \in 1..Len(s) : s[i] \in Digits \cup {"_"}
    /\ s[1] # "_" /\ s[Len(s)] # "_"
    /\ \A i \in 1..(Len(s) - 1) : ~(s[i] = "_" /\ s[i + 1] = "_")

ValueError == [ok |-> FALSE, val |-> 0]

\* int(tok): surrounding whitespace ignored, optional sign, decimal digits;
\* anything else raises ValueError
PyInt(tok) ==
    LET t == Strip(tok)
        signed == Len(t) >= 1 /\ t[1] \in {"+", "-"}
        body == IF signed THEN Tail(t) ELSE t
    IN  IF IsDigitPart(body)
        THEN [ok |-> TRUE,
              val |-> IF signed /\ t[1] = "-" THEN 0 - DigitsVal(body, 1, 0)
                      ELSE DigitsVal(body, 1, 0)]
        ELSE ValueError

\* ------------------------------------------------------------------------
\* Order file (.cardorder)
\* ------------------------------------------------------------------------

\* list(range(1, 71))
Identity == Indices(NumCards)

\* a file of the project directory: present with a text, or absent
File(t) == [exists |-> TRUE, text |-> t]

NoFile == [exists |-> FALSE, text |-> <<>>]

\* int(x) of every token
ParsedTokens(tokens) == AsList([i \in 1..Len(tokens) |-> PyInt(tokens[i])])

\* [int(x) for x in tokens], ValueError as soon as one token fails
ParseInts(tokens) ==
    LET ints == ParsedTokens(tokens)
    IN  IF \A i \in 1..Len(ints) : ints[i].ok
        THEN [ok |-> TRUE,
              val |-> AsList([i \in 1..Len(ints) |-> ints[i].val])]
        ELSE [ok |-> FALSE, val |-> <<>>]

\* load_card_order, keeping the tokens that parse and dropping the others
LoadCardOrderSkipping(f) ==
    IF f.exists
    THEN LET ints == ParsedTokens(Split(Strip(f.text), ","))
             good == SelectSeq(ints, LAMBDA r : r.ok)
         IN  AsList([i \in 1..Len(good) |-> good[i].val])
    ELSE Identity

\* Project.load_card_order on the given order file
LoadCardOrder(f) ==
    IF f.exists
    THEN LET parsed == ParseInts(Split(Strip(f.text), ","))
         IN  IF parsed.ok THEN parsed.val ELSE Identity
    ELSE Identity

\* map(str, order)
StrEach(order) == AsList([i \in 1..Len(order) |-> PyStr(order[i])])

\* save_card_order, joining with blanks: ' '.join(map(str, order))
OrderTextBlanks(order) == Join(StrEach(order), " ")

\* the text Project.save_card_order writes: ','.join(map(str, order))
OrderText(order) == Join(StrEach(order), ",")

\* a list of 70 entries whose values are the 70 card numbers
IsPermutation(order) ==
    /\ Len(order) = NumCards
    /\ {order[i] : i \in 1..NumCards} = 1..NumCards

\* Exchange, with the second assignment forgotten
ExchangeOverwrite(order, pos1, pos2) ==
    [order EXCEPT ![pos1 + 1] = order[pos2 + 1]]

\* order[pos1], order[pos2] = order[pos2], order[pos1] (0-indexed positions)
Exchange(order, pos1, pos2) ==
    [order EXCEPT ![pos1 + 1] = order[pos2 + 1],
                  ![pos2 + 1] = order[pos1 + 1]]

\* the bounds check with positions counted from 1
InRangeFromOne(order, pos1, pos2) ==
    /\ 0 < pos1 /\ pos1 < Len(order)
    /\ 0 < pos2 /\ pos2 < Len(order)

\* 0 <= pos1 < len(order) and 0 <= pos2 < len(order)
InRange(order, pos1, pos2) ==
    /\ 0 <= pos1 /\ pos1 < Len(order)
    /\ 0 <= pos2 /\ pos2 < Len(order)

\* ------------------------------------------------------------------------
\* Card files (cards/NN.md)
\* ------------------------------------------------------------------------

\* the name of a card's file: f"{card_num:02d}" (the ".md" suffix is fixed)
CardFileName(card_num) == Format02d(card_num)

\* the file of a card in a cards directory (a function from names to texts)
CardFile(dir, card_num) ==
    IF CardFileName(card_num) \in DOMAIN dir
    THEN File(dir[CardFileName(card_num)])
    ELSE NoFile

\* card_file.write_text(text) in a cards directory
WriteCard(dir, card_num, text) ==
    LET file == CardFileName(card_num)
    IN  IF file \in DOMAIN dir THEN [dir EXCEPT ![file] = text]
        ELSE [name \in (DOMAIN dir) \cup {file} |->
                 IF name = file THEN text ELSE dir[name]]

\* line.strip().startswith('#')
IsHeaderLine(line) == StartsWith(Strip(line), "#")

\* get_card_title_from_file, removing every leading '#': lstrip('#')
GetCardTitleStrippingAll(f) ==
    IF f.exists /\ Strip(f.text) # <<>>
    THEN LET first_line == Strip(Split(f.text, NL)[1])
         IN  IF StartsWith(first_line, "#")
             THEN Strip(SubSeq(first_line, SkipLeft(first_line, {"#"}, 1),
                               Len(first_line)))
             ELSE <<>>
    ELSE <<>>

\* Project.get_card_title_from_file on the given card file
GetCardTitleFromFile(f) ==
    IF f.exists /\ Strip(f.text) # <<>>
    THEN LET first_line == Strip(Split(f.text, NL)[1])
         IN  IF StartsWith(first_line, "#") THEN Strip(Tail(first_line))
             ELSE <<>>
    ELSE <<>>

\* Project.get_card_content on the given card file
GetCardContent(f) == IF f.exists THEN f.text ELSE <<>>

\* a second-level header: f"## {new_title}"
HeaderLineLevel2(new_title) == <<"#", "#", " ">> \o new_title

\* f"# {new_title}"
HeaderLine(new_title) == <<"#", " ">> \o new_title

\* list.insert(0, x)
InsertFirst(lines, x) == <<x>> \o lines

\* the lines of rename_card with a blank line after every inserted header
RenamedLinesAlwaysSpaced(lines, new_title) ==
    IF IsHeaderLine(lines[1])
    THEN [lines EXCEPT ![1] = HeaderLine(new_title)]
    ELSE <<HeaderLine(new_title), <<>>>> \o lines

\* the lines Project.rename_card writes for a non-empty title on an existing
\* card file
RenamedLines(lines, new_title) ==
    IF IsHeaderLine(lines[1])
    THEN [lines EXCEPT ![1] = HeaderLine(new_title)]
    ELSE LET ins == InsertFirst(lines, HeaderLine(new_title))
         IN  IF Len(ins) > 1 /\ Strip(ins[2]) # <<>>
             THEN <<ins[1], <<>>>> \o Tail(ins)
             ELSE ins

\* the lines Project.rename_card keeps when the title is removed from a card
\* whose first line is a header
UntitledLines(lines) ==
    LET rest == Tail(lines)
    IN  IF Len(rest) > 0 /\ Strip(rest[1]) = <<>> THEN Tail(rest) ELSE rest

\* rename_card, reading an absent card file as empty content
RenameCardFileUniform(f, new_title) ==
    IF Strip(new_title) # <<>>
    THEN [file |-> File(Join(RenamedLines(Split(GetCardContent(f), NL),
                                          new_title), NL)),
          wrote |-> TRUE]
    ELSE IF f.exists /\ IsHeaderLine(Split(f.text, NL)[1])
         THEN [file |-> File(Join(UntitledLines(Split(f.text, NL)), NL)),
               wrote |-> TRUE]
         ELSE [file |-> f, wrote |-> FALSE]

\* Project.rename_card on the given card file: the card file afterwards and
\* whether the file was written
RenameCardFile(f, new_title) ==
    IF Strip(new_title) # <<>>
    THEN IF f.exists
         THEN [file |-> File(Join(RenamedLines(Split(f.text, NL), new_title), NL)),
               wrote |-> TRUE]
         ELSE [file |-> File(HeaderLine(new_title) \o <<NL, NL>>),
               wrote |-> TRUE]
    ELSE IF f.exists /\ IsHeaderLine(Split(f.text, NL)[1])
         THEN [file |-> File(Join(UntitledLines(Split(f.text, NL)), NL)),
               wrote |-> TRUE]
         ELSE [file |-> f, wrote |-> FALSE]

\* is_card_written, testing the lines as they stand in the content
IsCardWrittenUntrimmed(f) ==
    LET all == Split(GetCardContent(f), NL)
        lines == SelectSeq(all, LAMBDA l : Strip(l) # <<>>)
    IN  \/ Len(lines) > 1
        \/ (Len(lines) = 1 /\ ~StartsWith(lines[1], "#"))

\* Project.is_card_written on the given card file
IsCardWritten(f) ==
    LET all == Split(GetCardContent(f), NL)
        lines == SelectSeq([i \in 1..Len(all) |-> Strip(all[i])],
                           LAMBDA l : l # <<>>)
    IN  \/ Len(lines) > 1
        \/ (Len(lines) = 1 /\ ~StartsWith(lines[1], "#"))

\* ------------------------------------------------------------------------
\* Exports
\* ------------------------------------------------------------------------

\* self.name of the modelled project
ProjectName == <<"P">>

\* the texts datetime.now().strftime(...) may produce during a run
Timestamps == {<<"t", "1">>, <<"t", "2">>}

\* '\n'.join(content.split('\n')[1:]).strip()
CardBody(f) == Strip(Join(Tail(Split(GetCardContent(f), NL)), NL))

\* f"# {self.name}\n\nGenerated: {ts}\n\n---\n\n"
ScreenplayHeader(ts) ==
    <<"#", " ">> \o ProjectName \o <<NL, NL>> \o <<"G", "e", "n", "e", "r", "a", "t", "e", "d", ":", " ">> \o ts
        \o <<NL, NL>> \o <<"-", "-", "-", NL, NL>>

\* f"## Scene {i}\n\n{card_content}\n\n---\n\n", nothing for an empty body
ScreenplaySection(i, body) ==
    IF body # <<>>
    THEN <<"#", "#", " ", "S", "c", "e", "n", "e", " ">> \o PyStr(i) \o <<NL, NL>> \o body \o <<NL, NL>> \o <<"-", "-", "-", NL, NL>>
    ELSE <<>>

\* export_screenplay_md, numbering the sections by card number
ExportScreenplayMdByCard(order, dir, ts) ==
    ScreenplayHeader(ts) \o
    Concat([i \in 1..Len(order) |->
              ScreenplaySection(order[i], CardBody(CardFile(dir, order[i])))])

\* Project.export_screenplay_md for the given order, cards and timestamp
ExportScreenplayMd(order, dir, ts) ==
    ScreenplayHeader(ts) \o
    Concat([i \in 1..Len(order) |->
              ScreenplaySection(i, CardBody(CardFile(dir, order[i])))])

\* f"Title: {self.name}\nAuthor: \nDraft date: {ts}\n\n"
FountainHeader(ts) ==
    <<"T", "i", "t", "l", "e", ":", " ">> \o ProjectName \o <<NL>> \o <<"A", "u", "t", "h", "o", "r", ":", " ">> \o <<NL>> \o <<"D", "r", "a", "f", "t", " ", "d", "a", "t", "e", ":", " ">>
        \o ts \o <<NL, NL>>

\* f"INT./EXT. SCENE {i}\n\n{card_content}\n\n", nothing for an empty body
FountainSection(i, body) ==
    IF body # <<>>
    THEN <<"I", "N", "T", ".", "/", "E", "X", "T", ".", " ", "S", "C", "E", "N", "E", " ">> \o PyStr(i) \o <<NL, NL>> \o body \o <<NL, NL>>
    ELSE <<>>

\* Project.export_fountain for the given order, cards and timestamp
ExportFountain(order, dir, ts) ==
    FountainHeader(ts) \o
    Concat([i \in 1..Len(order) |->
              FountainSection(i, CardBody(CardFile(dir, order[i])))])

\* the status glyphs of the outline, as the string literals of the source
\* hold them: the two characters U+00E2 U+2014 and the three characters
\* U+00E2 U+2014 U+2039 (each character is written by its code point)
WrittenGlyph == <<"U+00E2", "U+2014">>

UnwrittenGlyph == <<"U+00E2", "U+2014", "U+2039">>

\* f"{i:02d}. {status} {title}\n" or f"{i:02d}. {status} [Card {card_num}]\n"
OutlineLine(i, card_num, f) ==
    LET title == GetCardTitleFromFile(f)
        status == IF IsCardWritten(f) THEN WrittenGlyph ELSE UnwrittenGlyph
    IN  Format02d(i) \o <<".", " ">> \o status \o <<" ">> \o
        (IF title # <<>> THEN title
         ELSE <<"[", "C", "a", "r", "d", " ">> \o PyStr(card_num) \o <<"]">>)
        \o <<NL>>

\* export_outline, leaving out the cards that are not written
ExportOutlineOfWritten(order, dir) ==
    <<"#", " ">> \o ProjectName \o <<" ", "-", " ", "S", "t", "o", "r", "y", " ", "O", "u", "t", "l", "i", "n", "e">> \o <<NL, NL>> \o
    Concat([i \in 1..Len(order) |->
              IF IsCardWritten(CardFile(dir, order[i]))
              THEN OutlineLine(i, order[i], CardFile(dir, order[i]))
              ELSE <<>>])

\* Project.export_outline for the given order and cards
ExportOutline(order, dir) ==
    <<"#", " ">> \o ProjectName \o <<" ", "-", " ", "S", "t", "o", "r", "y", " ", "O", "u", "t", "l", "i", "n", "e">> \o <<NL, NL>> \o
    Concat([i \in 1..Len(order) |->
              OutlineLine(i, order[i], CardFile(dir, order[i]))])

\* ------------------------------------------------------------------------
\* Project registry (projects.json)
\* ------------------------------------------------------------------------

UpperChars ==
    <<"A", "B", "C", "D", "E", "F", "G", "H", "I", "J", "K", "L", "M",
      "N", "O", "P", "Q", "R", "S", "T", "U", "V", "W", "X", "Y", "Z">>

LowerChars ==
    <<"a", "b", "c", "d", "e", "f", "g", "h", "i", "j", "k", "l", "m",
      "n", "o", "p", "q", "r", "s", "t", "u", "v", "w", "x", "y", "z">>

\* s.lower()
Lower(s) ==
    [i \in 1..Len(s) |->
        IF \E k \in 1..26 : UpperChars[k] = s[i]
        THEN LowerChars[CHOOSE k \in 1..26 : UpperChars[k] = s[i]]
        ELSE s[i]]

\* s.replace(old, new) for one-character old and new
Replace(s, old, new) ==
    [i \in 1..Len(s) |-> IF s[i] = old THEN new ELSE s[i]]

\* the id of a project, keeping the case of the name
ProjectIdKeepingCase(name) == Replace(Replace(name, " ", "-"), "_", "-")

\* name.lower().replace(' ', '-').replace('_', '-')
ProjectId(name) == Replace(Replace(Lower(name), " ", "-"), "_", "-")

\* the registry: config["projects"] is the list of the entries in the
\* order of the dict's keys
Entry(id, name, path, ts) ==
    [id |-> id, name |-> name, path |-> path, last_opened |-> ts]

\* the keys of config["projects"]
Keys(cfg) == {cfg.projects[i].id : i \in 1..Len(cfg.projects)}

\* the position of a key in config["projects"]
KeyIndex(cfg, id) ==
    CHOOSE i \in 1..Len(cfg.projects) : cfg.projects[i].id = id

\* config["projects"][project_id] = entry: an existing key keeps its place
PutEntry(projects, entry) ==
    IF \E i \in 1..Len(projects) : projects[i].id = entry.id
    THEN [i \in 1..Len(projects) |->
             IF projects[i].id = entry.id THEN entry ELSE projects[i]]
    ELSE Append(projects, entry)

\* del config["projects"][project_id]
DelEntry(projects, id) == SelectSeq(projects, LAMBDA e : e.id # id)

\* ProjectManager.add_project(name, path) at the time ts on the registry
AddProject(cfg, name, path, ts) ==
    [projects |-> PutEntry(cfg.projects,
                           Entry(ProjectId(name), name, path, ts)),
     last_project |-> <<ProjectId(name)>>]

\* remove_project, leaving last_project as it is
RemoveProjectKeepingLast(cfg, id) ==
    IF id \in Keys(cfg)
    THEN [config |-> [cfg EXCEPT !.projects = DelEntry(cfg.projects, id)],
          raised |-> FALSE]
    ELSE [config |-> cfg, raised |-> TRUE]

\* ProjectManager.remove_project(project_id): the registry afterwards and
\* whether ValueError was raised
RemoveProject(cfg, id) ==
    IF id \in Keys(cfg)
    THEN LET remaining == DelEntry(cfg.projects, id)
         IN  [config |->
                  [projects |-> remaining,
                   last_project |->
                       IF cfg.last_project = <<id>>
                       THEN IF remaining # <<>> THEN <<remaining[1].id>>
                            ELSE <<>>
                       ELSE cfg.last_project],
              raised |-> FALSE]
    ELSE [config |-> cfg, raised |-> TRUE]

\* delete_project_permanently, removing the entry and keeping the files
DeleteProjectKeepingFiles(cfg, ds, id) ==
    IF id \in Keys(cfg)
    THEN [config |-> RemoveProject(cfg, id).config, dirs |-> ds,
          raised |-> FALSE]
    ELSE [config |-> cfg, dirs |-> ds, raised |-> TRUE]

\* ProjectManager.delete_project_permanently(project_id): the registry and
\* the directories afterwards and whether ValueError was raised
DeleteProjectPermanently(cfg, ds, id) ==
    IF id \in Keys(cfg)
    THEN LET project_path == cfg.projects[KeyIndex(cfg, id)].path
             removed == RemoveProject(cfg, id)
         IN  [config |-> removed.config, dirs |-> ds \ {project_path},
              raised |-> removed.raised]
    ELSE [config |-> cfg, dirs |-> ds, raised |-> TRUE]

\* update_last_opened, without the test that the project is registered
UpdateLastOpenedOfAny(cfg, id, ts) ==
    [projects |->
         [i \in 1..Len(cfg.projects) |->
             IF cfg.projects[i].id = id
             THEN [cfg.projects[i] EXCEPT !.last_opened = ts]
             ELSE cfg.projects[i]],
     last_project |-> <<id>>]

\* ProjectManager.update_last_opened(project_id) at the time ts
UpdateLastOpened(cfg, id, ts) ==
    IF id \in Keys(cfg)
    THEN [projects |->
              [cfg.projects EXCEPT ![KeyIndex(cfg, id)].last_opened = ts],
          last_project |-> <<id>>]
    ELSE cfg

\* ------------------------------------------------------------------------
\* State
\* ------------------------------------------------------------------------

VARIABLES
    orderFile,  \* the project's .cardorder file
    cards,      \* the cards directory: file name |-> text of the file
    editor,     \* the TextEditorScreen on top of the editor, if one is open
    last,       \* the last call: its arguments, its result and what it wrote
    config,     \* the registry document projects.json
    dirs,       \* the paths at which a directory tree exists
    callers,    \* the callers inside swap_cards: position and local variables
    trace       \* the file operations of the callers, in the order they ran

vars == <<orderFile, cards, editor, last, config, dirs, callers, trace>>

NoEditor == [open |-> FALSE, card_num |-> 0]

\* the record of a call; fields a call does not use keep these defaults
\* (for the calls of the registry: known tells whether the id was registered
\* before the call, was holds last_project before the call, removed tells
\* whether a directory tree was deleted)
Call(op) ==
    [op |-> op, via |-> "api", pos |-> <<0, 0>>, card_num |-> 0,
     text |-> <<>>, ret |-> FALSE, order |-> <<>>, before |-> NoFile,
     after |-> "", raised |-> FALSE, id |-> <<>>, path |-> "",
     known |-> FALSE, was |-> <<>>, removed |-> FALSE,
     wroteOrder |-> FALSE, wroteCard |-> FALSE]

\* the cards directory Project.create leaves: 70 empty files 01.md .. 70.md
CreatedCards == [name \in {CardFileName(i) : i \in 1..NumCards} |-> <<>>]

\* the arguments the calls of the deck specification are made with
InPos == {0, 1, NumCards - 1}

OutPos == {-1, NumCards}

\* pairs of positions: both in range, one out of range, both out of range
SwapArgs ==
    (InPos \X InPos) \cup (OutPos \X {0}) \cup ({0} \X OutPos)
        \cup {<<-1, NumCards>>}

CardArgs == {1, NumCards + 1}

TitleArgs == {<<>>, <<"A">>}

ContentArgs == {<<"b">>}

\* load_config() without a registry file: no projects, last_project None
\* (None is the empty list, an id x is the list <<x>>)
EmptyConfig == [projects |-> <<>>, last_project |-> <<>>]

\* the callers that may be inside swap_cards at the same time
Callers == {1, 2}

\* a caller outside swap_cards
Outside == [pc |-> "idle", pos |-> <<0, 0>>, order |-> <<>>, ret |-> FALSE]

\* nothing is registered and nobody is inside swap_cards
Quiet ==
    /\ config = EmptyConfig
    /\ dirs = {}
    /\ callers = [c \in Callers |-> Outside]
    /\ trace = <<>>

\* Project.create on a new directory
Init ==
    /\ orderFile = File(OrderText(Identity))
    /\ cards = CreatedCards
    /\ editor = NoEditor
    /\ last = [Call("create") EXCEPT !.wroteOrder = TRUE, !.wroteCard = TRUE]
    /\ Quiet

\* ------------------------------------------------------------------------
\* Project methods
\* ------------------------------------------------------------------------

\* swap_cards, saving the order also when the positions are rejected
SwapCardsAlwaysSaving(pos1, pos2, via) ==
    LET order == LoadCardOrder(orderFile)
    IN  /\ IF InRange(order, pos1, pos2)
           THEN /\ orderFile' = File(OrderText(Exchange(order, pos1, pos2)))
                /\ last' = [Call("swap_cards") EXCEPT
                               !.via = via, !.pos = <<pos1, pos2>>,
                               !.before = orderFile,
                               !.ret = TRUE, !.wroteOrder = TRUE]
           ELSE /\ orderFile' = File(OrderText(order))
                /\ last' = [Call("swap_cards") EXCEPT
                               !.via = via, !.pos = <<pos1, pos2>>,
                               !.before = orderFile, !.wroteOrder = TRUE]
        /\ UNCHANGED <<cards, editor, config, dirs, callers, trace>>

\* Project.swap_cards(pos1, pos2), reached through the api or a command
SwapCards(pos1, pos2, via) ==
    LET order == LoadCardOrder(orderFile)
    IN  /\ IF InRange(order, pos1, pos2)
           THEN /\ orderFile' = File(OrderText(Exchange(order, pos1, pos2)))
                /\ last' = [Call("swap_cards") EXCEPT
                               !.via = via, !.pos = <<pos1, pos2>>,
                               !.before = orderFile,
                               !.ret = TRUE, !.wroteOrder = TRUE]
           ELSE /\ orderFile' = orderFile
                /\ last' = [Call("swap_cards") EXCEPT
                               !.via = via, !.pos = <<pos1, pos2>>,
                               !.before = orderFile]
        /\ UNCHANGED <<cards, editor, config, dirs, callers, trace>>

\* rename_card, taking the number as a position of the order
RenameCardAtPosition(card_num, new_title, via) ==
    LET order == LoadCardOrder(orderFile)
        at == IF card_num \in 1..Len(order) THEN order[card_num]
              ELSE card_num
        r == RenameCardFile(CardFile(cards, at), new_title)
    IN  /\ cards' = IF r.wrote THEN WriteCard(cards, at, r.file.text)
                    ELSE cards
        /\ last' = [Call("rename_card") EXCEPT
                       !.via = via, !.card_num = card_num,
                       !.text = new_title, !.wroteCard = r.wrote]
        /\ UNCHANGED <<orderFile, editor, config, dirs, callers, trace>>

\* Project.rename_card(card_num, new_title)
RenameCard(card_num, new_title, via) ==
    LET r == RenameCardFile(CardFile(cards, card_num), new_title)
    IN  /\ cards' = IF r.wrote THEN WriteCard(cards, card_num, r.file.text)
                    ELSE cards
        /\ last' = [Call("rename_card") EXCEPT
                       !.via = via, !.card_num = card_num,
                       !.text = new_title, !.wroteCard = r.wrote]
        /\ UNCHANGED <<orderFile, editor, config, dirs, callers, trace>>

\* Project.save_card_content(card_num, content)
SaveCardContent(card_num, content, via) ==
    /\ cards' = WriteCard(cards, card_num, content)
    /\ last' = [Call("save_card_content") EXCEPT
                   !.via = via, !.card_num = card_num,
                   !.text = content, !.wroteCard = TRUE]
    /\ UNCHANGED <<orderFile, editor, config, dirs, callers, trace>>

swap_cards ==
    \E p \in SwapArgs : SwapCards(p[1], p[2], "api")

rename_card ==
    \E card_num \in CardArgs, new_title \in TitleArgs :
        RenameCard(card_num, new_title, "api")

save_card_content ==
    \E card_num \in CardArgs, content \in ContentArgs :
        SaveCardContent(card_num, content, "api")

\* Project.load_card_order()
load_card_order ==
    /\ last' = [Call("load_card_order") EXCEPT
                   !.order = LoadCardOrder(orderFile), !.after = last.op]
    /\ UNCHANGED <<orderFile, cards, editor, config, dirs, callers, trace>>

\* Project.export_screenplay_md()
export_screenplay_md ==
    \E ts \in Timestamps :
        /\ last' = [Call("export_screenplay_md") EXCEPT
                       !.text = ExportScreenplayMd(LoadCardOrder(orderFile),
                                                   cards, ts)]
        /\ UNCHANGED <<orderFile, cards, editor, config, dirs, callers, trace>>

\* Project.export_fountain()
export_fountain ==
    \E ts \in Timestamps :
        /\ last' = [Call("export_fountain") EXCEPT
                       !.text = ExportFountain(LoadCardOrder(orderFile),
                                               cards, ts)]
        /\ UNCHANGED <<orderFile, cards, editor, config, dirs, callers, trace>>

\* Project.export_outline()
export_outline ==
    /\ last' = [Call("export_outline") EXCEPT
                   !.text = ExportOutline(LoadCardOrder(orderFile), cards)]
    /\ UNCHANGED <<orderFile, cards, editor, config, dirs, callers, trace>>

\* ------------------------------------------------------------------------
\* Editor commands
\* ------------------------------------------------------------------------

\* the commands typed into the editor's command input: the lowered keyword
\* and the remaining parts
Commands ==
    {[cmd |-> "swap", args |-> p] :
        p \in { << <<"1">>, <<"2">> >>, << <<"0">>, <<"1">> >>,
                << <<"2">>, <<"7", "1">> >>, << <<"1">>, <<"x">> >>,
                << <<"1">> >> }}
    \cup {[cmd |-> "rename", args |-> p] :
        p \in { << <<"1">>, <<"A">> >>,
                << <<"7", "1">>, <<"\"">>, <<"A", "\"">> >>,
                << <<"1">>, <<"'", "'">> >>,
                << <<"x">>, <<"A">> >> }}
    \cup {[cmd |-> "open", args |-> p] :
        p \in { << <<"1">> >>, << <<"7", "1">> >>, << <<"x">> >> }}
    \cup {[cmd |-> "help", args |-> <<>>]}

\* the notification of a command that changes nothing
Notify(op) ==
    /\ last' = [Call(op) EXCEPT !.via = "command"]
    /\ UNCHANGED <<orderFile, cards, editor, config, dirs, callers, trace>>

\* ' '.join(parts[2:]).strip('"\'')
TitleOfParts(parts) == StripChars(Join(parts, " "), {"\"", "'"})

\* EditorScreen.execute_command(command), with the TextEditorScreen closed
execute_command ==
    /\ ~editor.open
    /\ \E c \in Commands :
        IF c.cmd = "swap" /\ Len(c.args) = 2
        THEN IF PyInt(c.args[1]).ok /\ PyInt(c.args[2]).ok
             THEN SwapCards(PyInt(c.args[1]).val - 1,
                            PyInt(c.args[2]).val - 1, "command")
             ELSE Notify("invalid_command_format")
        ELSE IF c.cmd = "rename" /\ Len(c.args) >= 2
        THEN IF PyInt(c.args[1]).ok
             THEN RenameCard(PyInt(c.args[1]).val,
                             TitleOfParts(Tail(c.args)), "command")
             ELSE Notify("invalid_command_format")
        ELSE IF c.cmd = "open" /\ Len(c.args) = 1
        THEN IF PyInt(c.args[1]).ok
             THEN /\ editor' = [open |-> TRUE,
                                card_num |-> PyInt(c.args[1]).val]
                  /\ last' = [Call("edit_card") EXCEPT
                                 !.via = "command",
                                 !.card_num = PyInt(c.args[1]).val]
                  /\ UNCHANGED <<orderFile, cards, config, dirs, callers, trace>>
             ELSE Notify("invalid_card_number")
        ELSE Notify("unknown_command")

\* TextEditorScreen.action_save with the text typed into the text area
action_save ==
    /\ editor.open
    /\ \E content \in ContentArgs :
        /\ cards' = WriteCard(cards, editor.card_num, content)
        /\ last' = [Call("save_card_content") EXCEPT
                       !.via = "editor", !.card_num = editor.card_num,
                       !.text = content, !.wroteCard = TRUE]
        /\ UNCHANGED <<orderFile, editor, config, dirs, callers, trace>>

\* TextEditorScreen closes (app.pop_screen)
action_close ==
    /\ editor.open
    /\ editor' = NoEditor
    /\ last' = [Call("close_editor") EXCEPT !.via = "editor"]
    /\ UNCHANGED <<orderFile, cards, config, dirs, callers, trace>>

\* the calls of the Project methods on a created project
Next ==
    \/ swap_cards
    \/ rename_card
    \/ save_card_content
    \/ load_card_order
    \/ export_screenplay_md
    \/ export_fountain
    \/ export_outline

Spec == Init /\ [][Next]_vars

\* the user's commands in the editor of a created project
NextEditor ==
    \/ execute_command
    \/ action_save
    \/ action_close

SpecEditor == Init /\ [][NextEditor]_vars

\* ------------------------------------------------------------------------
\* The order file on its own: any persisted text, loaded and saved
\* ------------------------------------------------------------------------

OrderAlphabet == {"1", "7", ",", " ", "x", "-"}

\* the texts over the alphabet of exactly n characters
RECURSIVE TextsOfLen(_, _)
TextsOfLen(alphabet, n) ==
    IF n = 0 THEN {<<>>}
    ELSE {Append(t, c) : t \in TextsOfLen(alphabet, n - 1), c \in alphabet}

\* the texts over the alphabet of at most n characters
TextsUpTo(alphabet, n) == UNION {TextsOfLen(alphabet, k) : k \in 0..n}

\* lists of 70 integers: the identity with one entry replaced (a
\* permutation, a duplicate or a value outside 1..70) and transpositions
OrderLists ==
    {[Identity EXCEPT ![i] = v] : i \in {1, NumCards},
                                  v \in {-1, 0, 1, NumCards, NumCards + 1}}
    \cup {Exchange(Identity, p[1], p[2]) : p \in InPos \X InPos}

\* lists of other lengths
OtherLists ==
    {<<>>, <<1, 1>>, SubSeq(Identity, 1, NumCards - 1),
     Append(Identity, NumCards + 1), Append(Identity, 1)}

\* the texts the order file may hold when the project is opened
OrderTexts ==
    TextsUpTo(OrderAlphabet, MaxOrderText)
    \cup {OrderText(l) : l \in OrderLists \cup OtherLists}
    \cup {OrderText(Identity) \o <<NL>>, <<" ">> \o OrderText(Identity)}

InitOrderFile ==
    /\ orderFile \in {NoFile} \cup {File(t) : t \in OrderTexts}
    /\ cards = CreatedCards
    /\ editor = NoEditor
    /\ last = Call("open")
    /\ Quiet

\* Project.save_card_order(order)
SaveCardOrder(order) ==
    /\ orderFile' = File(OrderText(order))
    /\ last' = [Call("save_card_order") EXCEPT
                   !.order = order, !.wroteOrder = TRUE]
    /\ UNCHANGED <<cards, editor, config, dirs, callers, trace>>

save_card_order == \E order \in OrderLists \cup OtherLists : SaveCardOrder(order)

NextOrderFile ==
    \/ load_card_order
    \/ save_card_order

SpecOrderFile == InitOrderFile /\ [][NextOrderFile]_vars

\* ------------------------------------------------------------------------
\* One card file on its own: any content, renamed
\* ------------------------------------------------------------------------

ContentAlphabet == {"#", " ", NL, "b"}

\* the contents card 1 may hold; card 71 has no file
Contents == TextsUpTo(ContentAlphabet, MaxLen)

\* the titles rename_card is called with
RenameTitles ==
    {<<>>, <<" ">>, <<"A">>, <<" ", "A">>, <<"A", " ">>, <<"#", "A">>,
     <<"A", " ", "B">>, <<"A", NL, "B">>}

InitContent ==
    /\ orderFile = File(OrderText(Identity))
    /\ cards \in {WriteCard(CreatedCards, 1, c) : c \in Contents}
    /\ editor = NoEditor
    /\ last = Call("open")
    /\ Quiet

\* one call of rename_card on the opened project
rename_any ==
    /\ last.op = "open"
    /\ \E card_num \in CardArgs, new_title \in RenameTitles :
           RenameCard(card_num, new_title, "api")

NextContent == rename_any

SpecContent == InitContent /\ [][NextContent]_vars

\* ------------------------------------------------------------------------
\* The deck read: any content in card 1, one read or export
\* ------------------------------------------------------------------------

\* the orders the deck is read in: card 2 at position 2 and at position 70
DeckOrders == {Identity, Exchange(Identity, 1, NumCards - 1)}

\* the contents card 2 may hold: empty, and a header with a body
SecondContents == {<<>>, <<"#", NL, "b">>}

\* the cards whose title and status are read; card 71 has no file
ReadArgs == {1, 2, NumCards + 1}

InitDeck ==
    /\ orderFile \in {File(OrderText(order)) : order \in DeckOrders}
    /\ cards \in {WriteCard(WriteCard(CreatedCards, 1, c), 2, d) :
                     c \in Contents, d \in SecondContents}
    /\ editor = NoEditor
    /\ last = Call("open")
    /\ Quiet

\* Project.get_card_title_from_file(card_num)
get_card_title_from_file ==
    /\ last.op = "open"
    /\ \E card_num \in ReadArgs :
           last' = [Call("get_card_title_from_file") EXCEPT
                       !.card_num = card_num,
                       !.text = GetCardTitleFromFile(CardFile(cards, card_num))]
    /\ UNCHANGED <<orderFile, cards, editor, config, dirs, callers, trace>>

\* Project.is_card_written(card_num)
is_card_written ==
    /\ last.op = "open"
    /\ \E card_num \in ReadArgs :
           last' = [Call("is_card_written") EXCEPT
                       !.card_num = card_num,
                       !.ret = IsCardWritten(CardFile(cards, card_num))]
    /\ UNCHANGED <<orderFile, cards, editor, config, dirs, callers, trace>>

\* one export of the opened project as a screenplay
screenplay_of_deck == last.op = "open" /\ export_screenplay_md

\* one export of the opened project as an outline
outline_of_deck == last.op = "open" /\ export_outline

NextDeck ==
    \/ get_card_title_from_file
    \/ is_card_written
    \/ screenplay_of_deck
    \/ outline_of_deck

SpecDeck == InitDeck /\ [][NextDeck]_vars

\* ------------------------------------------------------------------------
\* The registry on its own: projects created, added, removed and deleted
\* ------------------------------------------------------------------------

\* the names projects are created with; two of them share an id
ProjectNames == {<<"M", "y", " ", "S">>, <<"m", "y", "_", "s">>, <<"B">>}

\* the directory of the project whose order file and cards are modelled
ProjectPath == "/x"

\* the directories projects are created in
Paths == {ProjectPath, "/y"}

\* the ids the registry is called with; the last one is never registered
ProjectIds == {ProjectId(name) : name \in ProjectNames} \cup {<<"z">>}

\* a cards directory that does not exist
NoCards == <<>>

InitRegistry ==
    /\ orderFile = NoFile
    /\ cards = NoCards
    /\ editor = NoEditor
    /\ last = Call("start")
    /\ Quiet

\* shutil.rmtree(path) seen from the modelled project
Rmtree(removed) ==
    IF ProjectPath \in removed
    THEN orderFile' = NoFile /\ cards' = NoCards
    ELSE UNCHANGED <<orderFile, cards>>

\* Project(name, path).create(): the directories, the identity order and an
\* empty file for every card that has none
create ==
    \E path \in Paths :
        /\ dirs' = dirs \cup {path}
        /\ IF path = ProjectPath
           THEN /\ orderFile' = File(OrderText(Identity))
                /\ cards' = [name \in {CardFileName(i) : i \in 1..NumCards} |->
                                IF name \in DOMAIN cards THEN cards[name]
                                ELSE <<>>]
           ELSE UNCHANGED <<orderFile, cards>>
        /\ last' = [Call("create") EXCEPT
                       !.path = path,
                       !.wroteOrder = (path = ProjectPath),
                       !.wroteCard = (path = ProjectPath)]
        /\ UNCHANGED <<editor, config, callers, trace>>

\* ProjectManager.add_project(name, path)
add_project ==
    \E name \in ProjectNames, path \in Paths, ts \in Timestamps :
        /\ config' = AddProject(config, name, path, ts)
        /\ last' = [Call("add_project") EXCEPT
                       !.text = name, !.path = path,
                       !.id = ProjectId(name),
                       !.known = (ProjectId(name) \in Keys(config)),
                       !.was = config.last_project]
        /\ UNCHANGED <<orderFile, cards, editor, dirs, callers, trace>>

\* ProjectManager.remove_project(project_id)
remove_project ==
    \E id \in ProjectIds :
        LET r == RemoveProject(config, id)
        IN  /\ config' = r.config
            /\ last' = [Call("remove_project") EXCEPT
                           !.id = id, !.raised = r.raised,
                           !.known = (id \in Keys(config)),
                           !.was = config.last_project]
            /\ UNCHANGED <<orderFile, cards, editor, dirs, callers, trace>>

\* ProjectManager.delete_project_permanently(project_id)
delete_project_permanently ==
    \E id \in ProjectIds :
        LET r == DeleteProjectPermanently(config, dirs, id)
        IN  /\ config' = r.config
            /\ dirs' = r.dirs
            /\ Rmtree(dirs \ r.dirs)
            /\ last' = [Call("delete_project_permanently") EXCEPT
                           !.id = id, !.raised = r.raised,
                           !.known = (id \in Keys(config)),
                           !.was = config.last_project,
                           !.removed = (r.dirs # dirs)]
            /\ UNCHANGED <<editor, callers, trace>>

\* ProjectManager.update_last_opened(project_id)
update_last_opened ==
    \E id \in ProjectIds, ts \in Timestamps :
        /\ config' = UpdateLastOpened(config, id, ts)
        /\ last' = [Call("update_last_opened") EXCEPT
                       !.id = id,
                       !.known = (id \in Keys(config)),
                       !.was = config.last_project]
        /\ UNCHANGED <<orderFile, cards, editor, dirs, callers, trace>>

NextRegistry ==
    \/ create
    \/ add_project
    \/ remove_project
    \/ delete_project_permanently
    \/ update_last_opened

SpecRegistry == InitRegistry /\ [][NextRegistry]_vars

\* ------------------------------------------------------------------------
\* swap_cards step by step: two callers on the same project
\* ------------------------------------------------------------------------

\* the orders the project may hold when the callers arrive
RaceOrders == {Identity, Exchange(Identity, 0, 1), Exchange(Identity, 1, NumCards - 1)}

\* the positions the callers pass: in range, and one pair out of range
RaceArgs == (InPos \X InPos) \cup {<<0, NumCards>>}

InitRace ==
    /\ orderFile \in {File(OrderText(order)) : order \in RaceOrders}
    /\ cards = CreatedCards
    /\ editor = NoEditor
    /\ last = Call("open")
    /\ Quiet

\* the list a caller saves, had it read the order file again before the
\* exchange
SavedOrderReloaded(caller, file) ==
    Exchange(LoadCardOrder(file), caller.pos[1], caller.pos[2])

\* the list a caller saves: its own list, loaded on entry, with the two
\* entries exchanged
SavedOrder(caller, file) ==
    Exchange(caller.order, caller.pos[1], caller.pos[2])

\* a caller enters swap_cards(pos1, pos2): order = self.load_card_order(),
\* then the test of the positions, which returns False when it fails
swap_cards_load(c) ==
    /\ callers[c].pc = "idle"
    /\ \E p \in RaceArgs :
        LET order == LoadCardOrder(orderFile)
        IN  IF InRange(order, p[1], p[2])
            THEN /\ callers' = [callers EXCEPT
                                   ![c] = [pc |-> "loaded", pos |-> p,
                                           order |-> order, ret |-> FALSE]]
                 /\ UNCHANGED last
            ELSE /\ callers' = [callers EXCEPT
                                   ![c] = [pc |-> "done", pos |-> p,
                                           order |-> order, ret |-> FALSE]]
                 /\ last' = [Call("swap_cards") EXCEPT
                                !.pos = p, !.before = orderFile]
    /\ trace' = Append(trace, <<"load", c>>)
    /\ UNCHANGED <<orderFile, cards, editor, config, dirs>>

\* the caller exchanges the two entries, saves its list and returns True
swap_cards_save(c) ==
    /\ callers[c].pc = "loaded"
    /\ orderFile' = File(OrderText(SavedOrder(callers[c], orderFile)))
    /\ callers' = [callers EXCEPT ![c].pc = "done", ![c].ret = TRUE]
    /\ last' = [Call("swap_cards") EXCEPT
                   !.pos = callers[c].pos, !.before = orderFile,
                   !.ret = TRUE, !.wroteOrder = TRUE]
    /\ trace' = Append(trace, <<"save", c>>)
    /\ UNCHANGED <<cards, editor, config, dirs>>

NextRace ==
    \/ \E c \in Callers : swap_cards_load(c)
    \/ \E c \in Callers : swap_cards_save(c)

SpecRace == InitRace /\ [][NextRace]_vars

\* ------------------------------------------------------------------------
\* A created and registered project: positions exchanged, cards renamed
\* ------------------------------------------------------------------------

\* the project after NewProjectScreen.on_input_submitted: created on disk
\* and added to the registry
InitRegistered ==
    /\ orderFile = File(OrderText(Identity))
    /\ cards = CreatedCards
    /\ editor = NoEditor
    /\ last = [Call("create") EXCEPT !.wroteOrder = TRUE, !.wroteCard = TRUE]
    /\ config \in {AddProject(EmptyConfig, ProjectName, ProjectPath, ts) :
                      ts \in Timestamps}
    /\ dirs = {ProjectPath}
    /\ callers = [c \in Callers |-> Outside]
    /\ trace = <<>>

NextRegistered ==
    \/ swap_cards
    \/ rename_card
    \/ save_card_content

SpecRegistered == InitRegistered /\ [][NextRegistered]_vars

\* ------------------------------------------------------------------------
\* Properties
\* ------------------------------------------------------------------------

\* the card file the last call addressed
LastCard == CardFile(cards, last.card_num)

\* C1: from a created project, after any sequence of swap_cards calls with
\* arbitrary positions, interleaved with rename_card, save_card_content and
\* the exports, the loaded order has length 70 and holds every value of
\* 1..70 exactly once.
C1_OrderIsPermutation ==
    LET order == LoadCardOrder(orderFile)
    IN  /\ Len(order) = NumCards
        /\ \A v \in 1..NumCards :
               Cardinality({i \in 1..Len(order) : order[i] = v}) = 1

\* a successful exchange has moved the order away from the identity while a
\* card file has been renamed or saved
C1_Witness ==
    /\ last.op = "swap_cards" /\ last.ret
    /\ LoadCardOrder(orderFile) # Identity
    /\ cards # CreatedCards

\* the tokens of an order file's text
OrderTokens(f) == Split(Strip(f.text), ",")

\* C2: a persisted list of integers that is not a permutation of 1..70 is
\* treated as corrupt: load_card_order returns the identity.
C2_NonPermutationYieldsIdentity ==
    (/\ last.op = "load_card_order"
     /\ orderFile.exists
     /\ ParseInts(OrderTokens(orderFile)).ok
     /\ ~IsPermutation(ParseInts(OrderTokens(orderFile)).val))
        => last.order = Identity

\* C3: load_card_order returns the identity whenever the order file is
\* missing or holds a token that does not parse as an integer (an empty
\* file included).
C3_UnparsableYieldsIdentity ==
    (/\ last.op = "load_card_order"
     /\ \/ ~orderFile.exists
        \/ \E i \in 1..Len(OrderTokens(orderFile)) :
               ~PyInt(OrderTokens(orderFile)[i]).ok)
        => last.order = Identity

\* an order file with a token that parses and one that does not was loaded
C3_Witness ==
    /\ last.op = "load_card_order"
    /\ orderFile.exists
    /\ \E i, j \in 1..Len(OrderTokens(orderFile)) :
           /\ PyInt(OrderTokens(orderFile)[i]).ok
           /\ ~PyInt(OrderTokens(orderFile)[j]).ok

\* C4: load_card_order right after save_card_order(p), p a permutation of
\* 1..70, returns p.
C4_SaveLoadRoundTrip ==
    [][(/\ last.op = "save_card_order"
        /\ IsPermutation(last.order)
        /\ last'.op = "load_card_order")
           => last'.order = last.order]_vars

\* a permutation other than the identity was saved and then loaded
C4_Witness ==
    /\ last.op = "load_card_order" /\ last.after = "save_card_order"
    /\ IsPermutation(last.order)
    /\ last.order # Identity

\* C5: on a persisted permutation, swap_cards(a, b) with in-range a # b
\* succeeds, leaves a permutation in which exactly the card numbers at a and
\* b are exchanged, and a second swap_cards(a, b) restores the order.
C5_SwapExchangesAndInverts ==
    [][/\ (/\ last'.op = "swap_cards"
           /\ IsPermutation(LoadCardOrder(orderFile))
           /\ last'.pos[1] \in 0..(NumCards - 1)
           /\ last'.pos[2] \in 0..(NumCards - 1)
           /\ last'.pos[1] # last'.pos[2])
              => LET old == LoadCardOrder(orderFile)
                     a == last'.pos[1] + 1
                     b == last'.pos[2] + 1
                     exchanged == [i \in 1..NumCards |->
                                      IF i = a THEN old[b]
                                      ELSE IF i = b THEN old[a]
                                      ELSE old[i]]
                 IN  /\ last'.ret
                     /\ IsPermutation(exchanged)
                     /\ LoadCardOrder(orderFile') = exchanged
       /\ (/\ last.op = "swap_cards" /\ last.ret
           /\ IsPermutation(LoadCardOrder(last.before))
           /\ last.pos[1] # last.pos[2]
           /\ last'.op = "swap_cards"
           /\ last'.pos = last.pos)
              => LoadCardOrder(orderFile') = LoadCardOrder(last.before)
      ]_vars

\* an exchange of two distinct positions has brought the order back to the
\* identity
C5_Witness ==
    /\ last.op = "swap_cards" /\ last.ret
    /\ last.pos[1] # last.pos[2]
    /\ LoadCardOrder(last.before) # Identity
    /\ LoadCardOrder(orderFile) = Identity

\* C6: swap_cards with a position outside [0, 70) returns failure, does not
\* write the order file and leaves the persisted order unchanged; so does
\* the command 'swap A B' with A or B equal to 0 or greater than 70.
C6_OutOfRangeSwapRejected ==
    [][(/\ last'.op = "swap_cards"
        /\ \/ last'.pos[1] \notin 0..(NumCards - 1)
           \/ last'.pos[2] \notin 0..(NumCards - 1))
           => /\ ~last'.ret
              /\ ~last'.wroteOrder
              /\ orderFile' = orderFile]_vars

\* the command 'swap 2 71' was rejected after an exchange had been made
C6_Witness ==
    /\ last.op = "swap_cards" /\ last.via = "command"
    /\ ~last.ret
    /\ last.pos = <<1, NumCards>>
    /\ LoadCardOrder(orderFile) # Identity

\* C7: the card files of a project are exactly those of the cards 1..70,
\* whatever commands the user types.
C7_CardFilesAreTheSeventy ==
    DOMAIN cards = {CardFileName(i) : i \in 1..NumCards}

\* C8 as stated: after rename_card(n, newTitle) with a non-empty newTitle
\* the derived title is newTitle.
C8_TitleIsNewTitle ==
    (last.op = "rename_card" /\ last.text # <<>>)
        => GetCardTitleFromFile(LastCard) = last.text

\* C8 amended: after rename_card(n, newTitle) with a newTitle that has no
\* line break and is not blank, the derived title is newTitle with its
\* leading and trailing whitespace removed.
C8_TitleIsTrimmedNewTitle ==
    (/\ last.op = "rename_card"
     /\ \A i \in 1..Len(last.text) : last.text[i] # NL
     /\ Strip(last.text) # <<>>)
        => GetCardTitleFromFile(LastCard) = Strip(last.text)

\* a card with a body was renamed to a title with a leading blank
C8_Witness ==
    /\ last.op = "rename_card"
    /\ last.text = <<" ", "A">>
    /\ LastCard.exists
    /\ Len(Split(LastCard.text, NL)) >= 3
    /\ GetCardTitleFromFile(LastCard) = <<"A">>

\* C9: rename_card(n, "") on a card whose first line is a header removes
\* that line, and the line after it when that one is blank, and leaves the
\* card with an empty derived title.
C9_RemovalLeavesNoTitle ==
    [][(/\ last'.op = "rename_card"
        /\ last'.text = <<>>
        /\ CardFile(cards, last'.card_num).exists
        /\ IsHeaderLine(Split(CardFile(cards, last'.card_num).text, NL)[1]))
           => LET old == Split(CardFile(cards, last'.card_num).text, NL)
                  new == CardFile(cards', last'.card_num)
                  dropped == IF Len(old) > 1 /\ Strip(old[2]) = <<>>
                             THEN 2 ELSE 1
              IN  /\ new.exists
                  /\ new.text = Join(SubSeq(old, dropped + 1, Len(old)), NL)
                  /\ GetCardTitleFromFile(new) = <<>>]_vars

\* C10 as stated: rename_card with a non-empty title writes for an absent
\* card file the content it writes for an empty one.
C10_AbsentWrittenAsEmpty ==
    [][(/\ last'.op = "rename_card"
        /\ Strip(last'.text) # <<>>
        /\ ~CardFile(cards, last'.card_num).exists)
           => CardFile(cards', last'.card_num)
                  = RenameCardFile(File(<<>>), last'.text).file]_vars

\* C10 amended: rename_card with a title that is not blank writes
\* "# {newTitle}\n\n" for an absent card file and "# {newTitle}\n" for an
\* empty one: the content for the absent file is the content for the empty
\* file followed by one more line break.
C10_AbsentWrittenWithExtraBreak ==
    [][(/\ last'.op = "rename_card"
        /\ Strip(last'.text) # <<>>
        /\ ~CardFile(cards, last'.card_num).exists)
           => /\ CardFile(cards', last'.card_num).exists
              /\ CardFile(cards', last'.card_num).text
                     = HeaderLine(last'.text) \o <<NL, NL>>
              /\ CardFile(cards', last'.card_num).text
                     = RenameCardFile(File(<<>>), last'.text).file.text
                           \o <<NL>>]_vars

\* the absent file of card 71 was created by a rename
C10_Witness ==
    /\ last.op = "rename_card"
    /\ last.card_num = NumCards + 1
    /\ LastCard.exists
    /\ LastCard.text = <<"#", " ", "A", NL, NL>>

\* the text before the first line break
FirstLineOf(text) ==
    SubSeq(text, 1, SkipLeft(text, {c \in ContentAlphabet : c # NL}, 1) - 1)

\* C11: get_card_title_from_file returns the first line with one leading
\* '#' and the surrounding whitespace removed when the trimmed first line
\* starts with '#', and the empty string otherwise (absent file, empty
\* content, blank first line, first line without '#'); only one '#' is
\* removed, so a first line '## X' yields '# X'.
C11_TitleIsFirstLineHeader ==
    (last.op = "get_card_title_from_file")
        => LET line == IF LastCard.exists
                       THEN Strip(FirstLineOf(LastCard.text)) ELSE <<>>
           IN  /\ last.text = IF Len(line) >= 1 /\ line[1] = "#"
                              THEN Strip(SubSeq(line, 2, Len(line)))
                              ELSE <<>>
               /\ (Len(line) >= 3 /\ line[1] = "#" /\ line[2] = "#")
                      => last.text = <<"#">> \o SubSeq(line, 3, Len(line))

\* the title '# b' was read from a card whose first line is '## b'
C11_Witness ==
    /\ last.op = "get_card_title_from_file"
    /\ LastCard.exists
    /\ LastCard.text = <<"#", "#", " ", "b">>
    /\ last.text = <<"#", " ", "b">>

\* the lines of a text that are not blank, as they stand in the text
NonBlankLines(text) == SelectSeq(Split(text, NL), LAMBDA l : Strip(l) # <<>>)

\* C12 as stated: is_card_written(n) is true exactly when, after dropping
\* the blank lines, more than one line remains, or exactly one line remains
\* and it does not start with '#'.
C12_WrittenIffBodyLine ==
    (last.op = "is_card_written")
        => LET lines == NonBlankLines(GetCardContent(LastCard))
           IN  last.ret <=> \/ Len(lines) > 1
                            \/ (Len(lines) = 1 /\ lines[1][1] # "#")

\* C12 amended: is_card_written(n) is true exactly when, after dropping the
\* blank lines, more than one line remains, or exactly one line remains and
\* its first character that is not whitespace is not '#'; it is false for
\* an absent file, empty content and a content whose only non-blank line is
\* a header, indented or not.
C12_WrittenIffTrimmedBodyLine ==
    (last.op = "is_card_written")
        => LET lines == NonBlankLines(GetCardContent(LastCard))
           IN  /\ last.ret <=>
                      \/ Len(lines) > 1
                      \/ (Len(lines) = 1 /\ Strip(lines[1])[1] # "#")
               /\ ~LastCard.exists => ~last.ret
               /\ GetCardContent(LastCard) = <<>> => ~last.ret

\* the status of a card whose only line is an indented header was read
C12_Witness ==
    /\ last.op = "is_card_written"
    /\ LastCard.exists
    /\ LastCard.text = <<" ", "#", "b">>
    /\ ~last.ret

\* the text after the first line break, trimmed
TrimmedRest(text) ==
    Strip(SubSeq(text, Len(FirstLineOf(text)) + 2, Len(text)))

\* the order read from the order file
LoadedOrder == LoadCardOrder(orderFile)

\* the body of the card at a position of an order
BodyAt(order, i) == TrimmedRest(GetCardContent(CardFile(cards, order[i])))

\* C13: export_screenplay_md emits, in increasing position order, one
\* '## Scene {position}' section for each position of the loaded order whose
\* card content, first line removed and the rest trimmed, is non-empty, and
\* no other section; the number is the position (not the card number, not a
\* count of the emitted sections) and the body is that trimmed remainder.
C13_SectionsByPosition ==
    (last.op = "export_screenplay_md")
        => LET order == LoadedOrder
               emitted == SelectSeq(Indices(Len(order)),
                                    LAMBDA i : BodyAt(order, i) # <<>>)
               sections ==
                   [k \in 1..Len(emitted) |->
                       <<"#", "#", " ", "S", "c", "e", "n", "e", " ">>
                           \o PyStr(emitted[k]) \o <<NL, NL>>
                           \o BodyAt(order, emitted[k])
                           \o <<NL, NL, "-", "-", "-", NL, NL>>]
           IN  \E ts \in Timestamps :
                   last.text = ScreenplayHeader(ts) \o Concat(sections)

\* card 2, the only card with a body, stands at position 70 and the export
\* holds the single section 'Scene 70'
C13_Witness ==
    /\ last.op = "export_screenplay_md"
    /\ LoadedOrder[NumCards] = 2
    /\ BodyAt(LoadedOrder, 1) = <<>>
    /\ BodyAt(LoadedOrder, NumCards) = <<"b">>
    /\ \E ts \in Timestamps :
           last.text = ScreenplayHeader(ts)
                           \o <<"#", "#", " ", "S", "c", "e", "n", "e", " ",
                                "7", "0", NL, NL, "b", NL, NL,
                                "-", "-", "-", NL, NL>>

\* the entry of the outline for position i of an order
OutlineEntry(order, i) ==
    LET card_num == order[i]
        f == CardFile(cards, card_num)
    IN  Format02d(i) \o <<".", " ">>
            \o (IF IsCardWritten(f) THEN WrittenGlyph ELSE UnwrittenGlyph)
            \o <<" ">>
            \o (IF GetCardTitleFromFile(f) # <<>> THEN GetCardTitleFromFile(f)
                ELSE <<"[", "C", "a", "r", "d", " ">> \o PyStr(card_num)
                         \o <<"]">>)

\* C14 as stated: the outline holds one entry line per position 1..70, in
\* position order, and on a deck of empty cards the export consists of
\* exactly 70 lines, each with the unwritten glyph and
\* '[Card {cardNumber}]'.
C14_OutlineIsSeventyLines ==
    (last.op = "export_outline" /\ cards = CreatedCards)
        => LET lines == Split(last.text, NL)
               order == LoadedOrder
           IN  /\ Len(lines) = NumCards + 1
               /\ lines[NumCards + 1] = <<>>
               /\ \A i \in 1..NumCards : lines[i] = OutlineEntry(order, i)

\* C14 amended: the outline never skips entries: after its header line
\* '# {name} - Story Outline' and a blank line it holds exactly one line per
\* position 1..70, in position order, '{position:02d}. {glyph} {title}' or,
\* for an empty title, '{position:02d}. {glyph} [Card {cardNumber}]'; on a
\* deck of empty cards these are 70 lines with the unwritten glyph and
\* '[Card {cardNumber}]', so that the export has 72 lines.
C14_OutlineHasEveryPosition ==
    (last.op = "export_outline")
        => LET lines == Split(last.text, NL)
               order == LoadedOrder
           IN  /\ Len(lines) = NumCards + 3
               /\ lines[1] = <<"#", " ">> \o ProjectName
                                 \o <<" ", "-", " ", "S", "t", "o", "r", "y",
                                      " ", "O", "u", "t", "l", "i", "n", "e">>
               /\ lines[2] = <<>> /\ lines[NumCards + 3] = <<>>
               /\ \A i \in 1..NumCards : lines[i + 2] = OutlineEntry(order, i)
               /\ cards = CreatedCards
                      => \A i \in 1..NumCards :
                             lines[i + 2] =
                                 Format02d(i) \o <<".", " ">> \o UnwrittenGlyph
                                     \o <<" ", "[", "C", "a", "r", "d", " ">>
                                     \o PyStr(order[i])
                                     \o <<"]">>

\* the outline of a deck of empty cards with card 2 at position 70
C14_Witness ==
    /\ last.op = "export_outline"
    /\ cards = CreatedCards
    /\ LoadedOrder[NumCards] = 2
    /\ Split(last.text, NL)[NumCards + 2]
           = <<"7", "0", ".", " ">> \o UnwrittenGlyph
                 \o <<" ", "[", "C", "a", "r", "d", " ", "2", "]">>

\* the entries of a registry
Entries(cfg) == {cfg.projects[i] : i \in 1..Len(cfg.projects)}

\* the entries of a registry under the keys other than id
OtherEntries(cfg, id) == {e \in Entries(cfg) : e.id # id}

\* the slug of a name, character by character
IsSlugOf(id, name) ==
    /\ Len(id) = Len(name)
    /\ \A i \in 1..Len(name) :
           IF name[i] \in {" ", "_"} THEN id[i] = "-"
           ELSE IF \E k \in 1..26 : UpperChars[k] = name[i]
                THEN \E k \in 1..26 : /\ UpperChars[k] = name[i]
                                      /\ LowerChars[k] = id[i]
                ELSE id[i] = name[i]

\* C15: add_project(name, path) returns the slug of name (lowercased, every
\* space and underscore replaced by a hyphen); afterwards the registry maps
\* that slug to the name, the path and a last_opened time, last_project is
\* that slug, every entry under another slug is unchanged, and an entry that
\* existed under the slug is overwritten without an error.
C15_AddRegistersUnderSlug ==
    [][(last'.op = "add_project")
           => /\ IsSlugOf(last'.id, last'.text)
              /\ ~last'.raised
              /\ \E ts \in Timestamps :
                     {e \in Entries(config') : e.id = last'.id}
                         = {Entry(last'.id, last'.text, last'.path, ts)}
              /\ Cardinality({i \in 1..Len(config'.projects) :
                                 config'.projects[i].id = last'.id}) = 1
              /\ config'.last_project = <<last'.id>>
              /\ OtherEntries(config', last'.id)
                     = OtherEntries(config, last'.id)]_vars

\* 'my_s' was added in /y over the entry of another name with the same slug
\* while a second project was registered, and the entry now holds 'my_s'
C15_Witness ==
    /\ last.op = "add_project"
    /\ last.known
    /\ last.text = <<"m", "y", "_", "s">>
    /\ last.was # <<last.id>>
    /\ Len(config.projects) = 2
    /\ config.projects[1] \in {Entry(<<"m", "y", "-", "s">>, last.text, "/y", ts) :
                                  ts \in Timestamps}

\* C16: remove_project(id) for a registered id deletes only that entry
\* (the other entries and all project files are unchanged); if id was
\* last_project, last_project becomes one of the remaining ids when any
\* remain and null when none remain; otherwise last_project is unchanged.
C16_RemoveDeletesOnlyEntry ==
    [][(last'.op = "remove_project" /\ last'.id \in Keys(config))
           => /\ ~last'.raised
              /\ last'.id \notin Keys(config')
              /\ Entries(config') = OtherEntries(config, last'.id)
              /\ Len(config'.projects) = Len(config.projects) - 1
              /\ UNCHANGED <<orderFile, cards, dirs>>
              /\ IF config.last_project = <<last'.id>>
                 THEN IF Keys(config') # {}
                      THEN /\ config'.last_project # <<>>
                           /\ config'.last_project[1] \in Keys(config')
                      ELSE config'.last_project = <<>>
                 ELSE config'.last_project = config.last_project]_vars

\* the last project was removed from the registry while another project
\* remained and the files of the modelled project were on disk
C16_Witness ==
    /\ last.op = "remove_project"
    /\ last.known
    /\ last.was = <<last.id>>
    /\ Len(config.projects) = 1
    /\ config.last_project = <<config.projects[1].id>>
    /\ ProjectPath \in dirs
    /\ cards # NoCards

\* C17: delete_project_permanently(id) for a registered id ends with the
\* project's directory tree absent and the entry removed exactly as by
\* remove_project(id); for an id that is not registered, remove_project and
\* delete_project_permanently fail with a not-found error, delete no
\* directory and leave the registry unchanged.
C17_DeleteRemovesTreeAndEntry ==
    [][/\ (last'.op = "delete_project_permanently" /\ last'.id \in Keys(config))
           => /\ ~last'.raised
              /\ \A e \in Entries(config) :
                     e.id = last'.id
                         => /\ e.path \notin dirs'
                            /\ dirs' = dirs \ {e.path}
              /\ config' = RemoveProject(config, last'.id).config
       /\ (/\ last'.op \in {"delete_project_permanently", "remove_project"}
           /\ last'.id \notin Keys(config))
           => /\ last'.raised
              /\ UNCHANGED <<config, dirs, orderFile, cards>>]_vars

\* the modelled project was deleted permanently with its directory, while
\* another project stays registered
C17_Witness ==
    /\ last.op = "delete_project_permanently"
    /\ last.known /\ last.removed
    /\ ProjectPath \notin dirs
    /\ cards = NoCards /\ ~orderFile.exists
    /\ Len(config.projects) = 1

\* the text rename_card is to leave for a title on an existing content: the
\* header in place of a first line that is a header, and otherwise the
\* header, a blank line when the first line is not blank, and the content
ContentUnder(old, new_title) ==
    IF IsHeaderLine(FirstLineOf(old))
    THEN HeaderLine(new_title)
             \o SubSeq(old, Len(FirstLineOf(old)) + 1, Len(old))
    ELSE HeaderLine(new_title) \o <<NL>>
             \o (IF Strip(FirstLineOf(old)) # <<>> THEN <<NL>> ELSE <<>>)
             \o old

\* C19 as stated: rename_card(n, newTitle) with a non-empty title on an
\* existing card file keeps every line of the content in its order: a first
\* line that is a header is replaced by '# {newTitle}', otherwise
\* '# {newTitle}' is inserted as the first line, followed by one blank line
\* exactly when the former first line is not blank.
C19_RenameKeepsLines ==
    [][(/\ last'.op = "rename_card"
        /\ last'.text # <<>>
        /\ CardFile(cards, last'.card_num).exists)
           => CardFile(cards', last'.card_num)
                  = File(ContentUnder(CardFile(cards, last'.card_num).text,
                                      last'.text))]_vars

\* C19 amended: the same for a title that is not blank; a title of
\* whitespace only is handled as the removal of the title.
C19_RenameKeepsLinesUnderTitle ==
    [][(/\ last'.op = "rename_card"
        /\ Strip(last'.text) # <<>>
        /\ CardFile(cards, last'.card_num).exists)
           => CardFile(cards', last'.card_num)
                  = File(ContentUnder(CardFile(cards, last'.card_num).text,
                                      last'.text))]_vars

\* a card of two body lines got the header 'A' and one blank line in front
C19_Witness ==
    /\ last.op = "rename_card"
    /\ last.text = <<"A">>
    /\ LastCard.exists
    /\ LastCard.text = <<"#", " ", "A", NL, NL, "b", NL, "b">>

\* C20: from an empty registry, after any sequence of add_project,
\* remove_project, delete_project_permanently and update_last_opened calls,
\* failing ones included, last_project is null exactly when no project is
\* registered, and otherwise it is the id of a registered project.
C20_LastProjectIsRegistered ==
    /\ (config.last_project = <<>>) <=> (config.projects = <<>>)
    /\ config.last_project # <<>> => config.last_project[1] \in Keys(config)

\* update_last_opened was called for an id that is not registered while two
\* projects were registered and the second one was the last project
C20_Witness ==
    /\ last.op = "update_last_opened"
    /\ ~last.known
    /\ Len(config.projects) = 2
    /\ config.last_project = <<config.projects[2].id>>

\* C18: swap_cards is a load followed by a save, without a lock: when two
\* callers both load the order before either saves, both return success,
\* the persisted order is exactly the order written by the last saver, and
\* the exchange of the other caller is lost: the order is the loaded one
\* with the last saver's exchange alone.
C18_LastSaverWins ==
    \A a, b \in Callers :
        (/\ a # b
         /\ Len(trace) = 4
         /\ {trace[1], trace[2]} = {<<"load", a>>, <<"load", b>>}
         /\ trace[3] = <<"save", a>>
         /\ trace[4] = <<"save", b>>)
            => LET loaded == callers[a].order
                   first == Exchange(loaded, callers[a].pos[1],
                                     callers[a].pos[2])
                   second == Exchange(loaded, callers[b].pos[1],
                                      callers[b].pos[2])
                   both == Exchange(first, callers[b].pos[1],
                                    callers[b].pos[2])
               IN  /\ callers[a].ret /\ callers[b].ret
                   /\ callers[b].order = loaded
                   /\ LoadedOrder = second
                   /\ first # loaded => LoadedOrder # both

\* caller 1 exchanged positions 0 and 1, caller 2 positions 1 and 69; both
\* loaded first, caller 2 saved last, and the cards at positions 0 and 1
\* are not both where caller 1 put them
C18_Witness ==
    /\ trace = << <<"load", 1>>, <<"load", 2>>, <<"save", 1>>, <<"save", 2>> >>
    /\ callers[1].pos = <<0, 1>> /\ callers[1].ret
    /\ callers[2].pos = <<1, NumCards - 1>> /\ callers[2].ret
    /\ callers[1].order = Identity
    /\ LoadedOrder = Exchange(Identity, 1, NumCards - 1)

\* the heading of the section of a position: f"## Scene {i}\n\n"
SceneHeading(i) ==
    <<"#", "#", " ", "S", "c", "e", "n", "e", " ">> \o PyStr(i) \o <<NL, NL>>

\* the text holds the heading of the section of position i
HasSection(text, i) ==
    \E k \in 1..(Len(text) - Len(SceneHeading(i)) + 1) :
        SubSeq(text, k, k + Len(SceneHeading(i)) - 1) = SceneHeading(i)

\* C21: the screenplay export and the written status agree: a position has
\* a '## Scene {position}' section in the export exactly when
\* is_card_written is true for the card at that position, so that no
\* written card is left out and no unwritten card appears.
C21_ExportAgreesWithWritten ==
    (last.op = "export_screenplay_md")
        => LET order == LoadedOrder
           IN  \A i \in 1..Len(order) :
                   HasSection(last.text, i)
                       <=> IsCardWritten(CardFile(cards, order[i]))

\* C22: rename_card never changes the written status of the card: for every
\* content and every title, empty or non-empty on a single line,
\* is_card_written(n) is the same after rename_card(n, newTitle) as before.
C22_RenameKeepsWritten ==
    [][(/\ last'.op = "rename_card"
        /\ \A i \in 1..Len(last'.text) : last'.text[i] # NL)
           => (IsCardWritten(CardFile(cards', last'.card_num))
                   <=> IsCardWritten(CardFile(cards, last'.card_num)))]_vars

\* the card files other than the one of a card number are the same in two
\* cards directories
SameOtherCards(before, after, card_num) ==
    \A name \in (DOMAIN before) \cup (DOMAIN after) :
        name # CardFileName(card_num)
            => /\ name \in DOMAIN before
               /\ name \in DOMAIN after
               /\ after[name] = before[name]

\* C23: position and card identity stay separate: swap_cards changes only
\* the order file and leaves every card file and the registry unchanged;
\* rename_card(n, t) changes at most the file of card number n, whatever
\* position that card stands at, and leaves the persisted order, every
\* other card file and the registry unchanged.
C23_SwapAndRenameFrames ==
    [][/\ (last'.op = "swap_cards")
              => UNCHANGED <<cards, config, dirs>>
       /\ (last'.op = "rename_card")
              => /\ UNCHANGED <<orderFile, config, dirs>>
                 /\ SameOtherCards(cards, cards', last'.card_num)
                 /\ last'.wroteCard
                        => CardFile(cards', last'.card_num)
                               = RenameCardFile(CardFile(cards, last'.card_num),
                                                last'.text).file]_vars

\* card 1 was given the title 'A' while it stands at position 2, card 2 at
\* position 1 kept its empty file, and the project is registered
C23_Witness ==
    /\ last.op = "rename_card"
    /\ last.card_num = 1 /\ last.wroteCard
    /\ LoadedOrder[1] = 2 /\ LoadedOrder[2] = 1
    /\ GetCardTitleFromFile(CardFile(cards, 1)) = <<"A">>
    /\ CardFile(cards, 2) = File(<<>>)
    /\ config.projects # <<>>

====
